---- MODULE Spec2Model ----
(***************************************************************************)
(* Model of the Glue-job transformer (transformer.py): the orchestration   *)
(* loop of transform() over the raw listing, and the schema normalisation  *)
(* it applies to the parsed sorteos / premios record sets.                 *)
(*                                                                         *)
(* Text is a sequence of one-character strings.  A data-frame cell is a    *)
(* record: NA (pandas <NA> / None / NaN), Str(text) or Num(number).  A     *)
(* number is [num, scale] = num / 10^scale with trailing zeros stripped,   *)
(* so scale = 0 exactly for the integers.                                  *)
(***************************************************************************)
EXTENDS Integers, Sequences, FiniteSets, TLC

\* ------------------------------------------------------------------ bounds
\* runs of transform() in one behaviour
MaxRuns == 2
\* raw keys in the listing
MaxFiles == 2
\* body lines of the file whose normalisation is followed stage by stage
MaxRows == 1

\* ------------------------------------------------------------------ cells
NA == [kind |-> "na"]
Str(s) == [kind |-> "str", s |-> s]
Num(n) == [kind |-> "num", n |-> n]
RAISE == [kind |-> "raise"]
IsNA(c) == c.kind = "na"
IsRaise(c) == c.kind = "raise"

Int0 == [num |-> 0, scale |-> 0]
IntNum(i) == [num |-> i, scale |-> 0]
NaN == [num |-> 0, scale |-> -1]

\* ------------------------------------------------------------------ text
Digits == <<"0", "1", "2", "3", "4", "5", "6", "7", "8", "9">>
LowerLetters == <<"a", "b", "c", "d", "e", "f", "g", "h", "i", "j", "k", "l", "m",
                  "n", "o", "p", "q", "r", "s", "t", "u", "v", "w", "x", "y", "z">>
UpperLetters == <<"A", "B", "C", "D", "E", "F", "G", "H", "I", "J", "K", "L", "M",
                  "N", "O", "P", "Q", "R", "S", "T", "U", "V", "W", "X", "Y", "Z">>

IsDigit(c) == \E i \in 1..10 : Digits[i] = c
DigitVal(c) == (CHOOSE i \in 1..10 : Digits[i] = c) - 1
AllDigits(s) == \A i \in 1..Len(s) : IsDigit(s[i])

RECURSIVE DecVal(_)
DecVal(s) == IF s = <<>> THEN 0
             ELSE 10 * DecVal(SubSeq(s, 1, Len(s) - 1)) + DigitVal(s[Len(s)])

RECURSIVE Pow10(_)
Pow10(k) == IF k = 0 THEN 1 ELSE 10 * Pow10(k - 1)

\* str.upper(), one character
UpperChar(c) == IF \E i \in 1..26 : LowerLetters[i] = c
                THEN UpperLetters[CHOOSE i \in 1..26 : LowerLetters[i] = c]
                ELSE c
\* str.upper()
Upper(s) == [i \in 1..Len(s) |-> UpperChar(s[i])]

\* str.strip() of blanks, as the numeric parser does before reading a literal
RECURSIVE LStrip(_)
LStrip(s) == IF s # <<>> /\ s[1] = " " THEN LStrip(Tail(s)) ELSE s
RECURSIVE RStrip(_)
RStrip(s) == IF s # <<>> /\ s[Len(s)] = " " THEN RStrip(SubSeq(s, 1, Len(s) - 1)) ELSE s
Strip(s) == RStrip(LStrip(s))

\* positions of character c in s
Positions(s, c) == {i \in 1..Len(s) : s[i] = c}

\* str.split(sep) : the fields of s between the occurrences of sep
RECURSIVE SplitOn(_, _)
SplitOn(s, sep) ==
    IF Positions(s, sep) = {} THEN <<s>>
    ELSE LET p == CHOOSE i \in Positions(s, sep) : \A j \in Positions(s, sep) : i <= j
         IN  <<SubSeq(s, 1, p - 1)>> \o SplitOn(SubSeq(s, p + 1, Len(s)), sep)

\* ------------------------------------------------------------------ pd.to_numeric(errors="coerce")
\* strip trailing zeros of a fraction
RECURSIVE Reduce(_, _)
Reduce(n, k) == IF k > 0 /\ n % 10 = 0 THEN Reduce(n \div 10, k - 1)
                ELSE [num |-> n, scale |-> k]

\* an unsigned decimal literal: digits, or digits "." digits with digits on a side
UnsignedNumber(s) ==
    LET dots == Positions(s, ".")
    IN  IF dots = {}
        THEN IF s # <<>> /\ AllDigits(s) THEN IntNum(DecVal(s)) ELSE NaN
        ELSE IF Cardinality(dots) > 1 THEN NaN
        ELSE LET p == CHOOSE i \in dots : TRUE
                 ip == SubSeq(s, 1, p - 1)
                 fp == SubSeq(s, p + 1, Len(s))
             IN  IF AllDigits(ip) /\ AllDigits(fp) /\ Len(ip) + Len(fp) > 0
                 THEN Reduce(DecVal(ip) * Pow10(Len(fp)) + DecVal(fp), Len(fp))
                 ELSE NaN

ParseNumber(s) ==
    LET t == Strip(s)
    IN  IF t # <<>> /\ t[1] \in {"-", "+"}
        THEN LET u == UnsignedNumber(Tail(t))
             IN  IF u = NaN THEN NaN
                 ELSE IF t[1] = "-" THEN [num |-> 0 - u.num, scale |-> u.scale] ELSE u
        ELSE UnsignedNumber(t)

\* one cell through pd.to_numeric(errors="coerce"): a number or NaN
to_numeric(c) == IF c.kind = "num" THEN c.n
                 ELSE IF c.kind = "str" THEN ParseNumber(c.s)
                 ELSE NaN

\* ------------------------------------------------------------------ coercion helpers
\* astype("Int64") of a to_numeric result that came from an object column
\* (numpy float64): NaN becomes <NA>, a non-integral value is refused
\* ("cannot safely cast non-equivalent float64 to int64").
astype_Int64(n) == IF n = NaN THEN NA
                   ELSE IF n.scale = 0 THEN Num(n)
                   ELSE RAISE

\* The same cast of a to_numeric result that came from a "string"-dtype column.
\* Where to_numeric answers a masked Float64 array the cast goes through numpy's
\* astype and cuts the fraction off; where it answers numpy float64 the cast is
\* refused as above.  cast is "truncate" or "raise".
astype_Int64_masked(n, cast) ==
    IF n = NaN THEN NA
    ELSE IF n.scale = 0 THEN Num(n)
    ELSE IF cast = "raise" THEN RAISE
    ELSE Num(IntNum(IF n.num >= 0 THEN n.num \div Pow10(n.scale)
                    ELSE 0 - ((0 - n.num) \div Pow10(n.scale))))

fillna(c, default) == IF IsNA(c) THEN default ELSE c

\* _to_int64(series, default), one cell; default is NA for "no default"
to_int64(c, default) ==
    LET s == astype_Int64(to_numeric(c))
    IN  IF IsRaise(s) THEN RAISE
        ELSE IF default # NA THEN fillna(s, default) ELSE s

\* _to_int64(series) of a "string"-dtype column, one cell
to_int64_masked(c, cast) == astype_Int64_masked(to_numeric(c), cast)

\* the coercion without .fillna(default)
to_float64_nofill(c, default) ==
    LET n == to_numeric(c) IN IF n = NaN THEN NA ELSE Num(n)

\* _to_float64(series, default), one cell
to_float64(c, default) ==
    LET n == to_numeric(c) IN IF n = NaN THEN Num(default) ELSE Num(n)

\* _to_string(series), one cell: text stays text, None / NaN becomes <NA>
to_string(c) == IF c.kind = "str" THEN Str(c.s) ELSE NA

\* ------------------------------------------------------------------ dates
IsLeap(y) == (y % 4 = 0 /\ y % 100 # 0) \/ y % 400 = 0
DaysIn(m, y) == IF m = 2 THEN (IF IsLeap(y) THEN 29 ELSE 28)
                ELSE IF m \in {4, 6, 9, 11} THEN 30 ELSE 31

NaT == [kind |-> "na"]
Date(y, m, d) == [kind |-> "date", y |-> y, m |-> m, d |-> d]

\* a parse that takes any day of 1..31 in any month
to_datetime_lenient(c) ==
    IF c.kind # "str" THEN NaT
    ELSE LET p == SplitOn(c.s, "/")
         IN  IF Len(p) # 3 THEN NaT
             ELSE IF ~(AllDigits(p[1]) /\ AllDigits(p[2]) /\ AllDigits(p[3])) THEN NaT
             ELSE IF ~(Len(p[1]) \in {1, 2} /\ Len(p[2]) \in {1, 2} /\ Len(p[3]) = 4) THEN NaT
             ELSE LET d == DecVal(p[1])
                      m == DecVal(p[2])
                      y == DecVal(p[3])
                  IN  IF m \in 1..12 /\ y \in 1678..2261 /\ d \in 1..31
                      THEN Date(y, m, d) ELSE NaT

\* pd.to_datetime(cell, format="%d/%m/%Y", errors="coerce"): day and month of
\* one or two digits, a year of four, a real calendar day inside the range a
\* nanosecond timestamp can hold; anything else is NaT.
to_datetime(c) ==
    IF c.kind # "str" THEN NaT
    ELSE LET p == SplitOn(c.s, "/")
         IN  IF Len(p) # 3 THEN NaT
             ELSE IF ~(AllDigits(p[1]) /\ AllDigits(p[2]) /\ AllDigits(p[3])) THEN NaT
             ELSE IF ~(Len(p[1]) \in {1, 2} /\ Len(p[2]) \in {1, 2} /\ Len(p[3]) = 4) THEN NaT
             ELSE LET d == DecVal(p[1])
                      m == DecVal(p[2])
                      y == DecVal(p[3])
                  IN  IF m \in 1..12 /\ y \in 1678..2261 /\ d \in 1..DaysIn(m, y)
                      THEN Date(y, m, d) ELSE NaT

\* ------------------------------------------------------------------ raw keys
SorteoEq == <<"s", "o", "r", "t", "e", "o", "=">>
NoMatch == -1

\* length of the run of digits of s that starts at position i
RECURSIVE DigitRun(_, _)
DigitRun(s, i) == IF i <= Len(s) /\ IsDigit(s[i]) THEN 1 + DigitRun(s, i + 1) ELSE 0

\* the pattern sorteo=(\d+)/ matches s at position i
MatchesAt(s, i) ==
    /\ i + 7 <= Len(s)
    /\ SubSeq(s, i, i + 6) = SorteoEq
    /\ DigitRun(s, i + 7) >= 1
    /\ i + 7 + DigitRun(s, i + 7) <= Len(s)
    /\ s[i + 7 + DigitRun(s, i + 7)] = "/"

\* int(re.search(r"sorteo=(\d+)/", raw_file).group(1)), or NoMatch
SorteoOfKey(s) ==
    LET hits == {i \in 1..Len(s) : MatchesAt(s, i)}
    IN  IF hits = {} THEN NoMatch
        ELSE LET i == CHOOSE h \in hits : \A g \in hits : h <= g
             IN  DecVal(SubSeq(s, i + 7, i + 6 + DigitRun(s, i + 7)))

\* ------------------------------------------------------------------ frames
\* A row is a function from column names to cells.  sorteos_df is the one row
\* built from process_header's record; premios_df is a sequence of rows, and
\* pd.DataFrame([]) is the frame without rows and without columns.
Columns(df) == IF df = <<>> THEN {} ELSE DOMAIN df[1]

DE_ESTA_CAPITAL == <<"D", "E", " ", "E", "S", "T", "A", " ", "C", "A", "P", "I", "T", "A", "L">>
GUATEMALA == <<"G", "U", "A", "T", "E", "M", "A", "L", "A">>
SentinelTexts == {<<"N", "/", "A">>, <<"n", "/", "a">>, <<>>}
SilverPremiosColumns ==
    {"numero_sorteo", "numero_premiado", "letras", "monto", "vendedor", "ciudad", "departamento"}

\* ---- premios
\* premio["numero_sorteo"] = sorteos[0]["numero_sorteo"] raises KeyError when
\* the header record carries no draw number and there is a premio to tag
AttachRaises(hdr, premios) == premios # <<>> /\ "numero_sorteo" \notin DOMAIN hdr

AttachNumeroSorteo(hdr, premios) ==
    [i \in 1..Len(premios) |-> ("numero_sorteo" :> hdr["numero_sorteo"]) @@ premios[i]]

\* split_vendido_por_column: the vendido_por cell of a parsed premio stands for
\* the three nullable texts the splitter derives from it
split_vendido_por_column(df) ==
    [i \in 1..Len(df) |->
        ("vendedor" :> df[i]["vendido_por"].vendedor)
        @@ ("ciudad" :> df[i]["vendido_por"].ciudad)
        @@ ("departamento" :> df[i]["vendido_por"].departamento)
        @@ df[i]]

\* the comparison without .str.upper()
mask_capital_cased(row) ==
    /\ row["ciudad"].kind = "str"
    /\ row["ciudad"].s = DE_ESTA_CAPITAL

\* premios_df["ciudad"].fillna("").str.upper().eq("DE ESTA CAPITAL"), one row
mask_capital(row) ==
    /\ row["ciudad"].kind = "str"
    /\ Upper(row["ciudad"].s) = DE_ESTA_CAPITAL

CapitalRaises(df) == "ciudad" \notin Columns(df)

CapitalOverride(df) ==
    [i \in 1..Len(df) |->
        IF mask_capital(df[i])
        THEN ("departamento" :> Str(GUATEMALA)) @@ df[i]
        ELSE df[i]]

SelectRaises(df) == ~(SilverPremiosColumns \subseteq Columns(df))

SelectSilverColumns(df) ==
    [i \in 1..Len(df) |-> [c \in SilverPremiosColumns |-> df[i][c]]]

\* replace({"N/A": None, "n/a": None, "": None}), one cell
replace_sentinel(c) == IF c.kind = "str" /\ c.s \in SentinelTexts THEN NA ELSE c

ReplaceSentinels(df) ==
    [i \in 1..Len(df) |-> [c \in DOMAIN df[i] |-> replace_sentinel(df[i][c])]]

PremiosSchemaRaises(df) ==
    \E i \in 1..Len(df) :
        \/ IsRaise(to_int64(df[i]["numero_sorteo"], Num(Int0)))
        \/ IsRaise(to_int64(df[i]["numero_premiado"], NA))

\* numero_sorteo coerced like numero_premiado, without default=0
EnforcePremiosSchemaNoDefault(df) ==
    [i \in 1..Len(df) |->
        [c \in DOMAIN df[i] |->
            CASE c \in {"numero_sorteo", "numero_premiado"} -> to_int64(df[i][c], NA)
              [] c = "monto" -> to_float64(df[i][c], Int0)
              [] OTHER -> to_string(df[i][c])]]

EnforcePremiosSchema(df) ==
    [i \in 1..Len(df) |->
        [c \in DOMAIN df[i] |->
            CASE c = "numero_sorteo" -> to_int64(df[i][c], Num(Int0))
              [] c = "numero_premiado" -> to_int64(df[i][c], NA)
              [] c = "monto" -> to_float64(df[i][c], Int0)
              [] OTHER -> to_string(df[i][c])]]

\* ---- sorteos
ReintegroColumns == <<"reintegro_primer_premio", "reintegro_segundo_premio",
                      "reintegro_tercer_premio">>

\* sorteos_df["reintegros"].astype("string").str.split(",", expand=True), the
\* one row: the fields of the text, or a single <NA> column for a null cell
reintegro_split(c) ==
    IF c.kind = "str"
    THEN LET p == SplitOn(c.s, ",") IN [i \in 1..Len(p) |-> Str(p[i])]
    ELSE <<NA>>

\* the padded columns filled with 0 instead of None
ReintegroCellsZeroPad(df, cast) ==
    IF "reintegros" \in DOMAIN df
    THEN LET sp == reintegro_split(df["reintegros"])
         IN  [i \in 1..3 |-> IF i <= Len(sp) THEN to_int64_masked(sp[i], cast)
                             ELSE to_int64(NA, Num(Int0))]
    ELSE [i \in 1..3 |-> to_int64(NA, Num(Int0))]

\* the three refund cells after the split, the padding and _to_int64: the
\* columns the split made are "string" columns, the padded ones hold None
ReintegroCells(df, cast) ==
    IF "reintegros" \in DOMAIN df
    THEN LET sp == reintegro_split(df["reintegros"])
         IN  [i \in 1..3 |-> IF i <= Len(sp) THEN to_int64_masked(sp[i], cast)
                             ELSE to_int64(NA, NA)]
    ELSE [i \in 1..3 |-> to_int64(NA, NA)]

CoreIntColumns == {"numero_sorteo", "primer_premio", "segundo_premio", "tercer_premio"}
DateColumns == {"fecha_sorteo", "fecha_caducidad"}

\* lines 163-186
ReintegrosRaises(df, cast) == \E i \in 1..3 : IsRaise(ReintegroCells(df, cast)[i])

SplitReintegros(df, cast) ==
    LET kept == DOMAIN df \ {"reintegros"}
        cols == kept \cup {ReintegroColumns[i] : i \in 1..3}
    IN  [c \in cols |->
            IF \E i \in 1..3 : ReintegroColumns[i] = c
            THEN ReintegroCells(df, cast)[CHOOSE i \in 1..3 : ReintegroColumns[i] = c]
            ELSE df[c]]

\* lines 188-204
SorteosSchemaRaises(df) ==
    \/ ~(CoreIntColumns \subseteq DOMAIN df)
    \/ IsRaise(to_int64(df["numero_sorteo"], Num(Int0)))
    \/ \E c \in CoreIntColumns \ {"numero_sorteo"} : IsRaise(to_int64(df[c], NA))
    \/ ~(DateColumns \subseteq DOMAIN df)

EnforceSorteosSchema(df) ==
    [c \in DOMAIN df |->
        CASE c = "numero_sorteo" -> to_int64(df[c], Num(Int0))
          [] c \in CoreIntColumns \ {"numero_sorteo"} -> to_int64(df[c], NA)
          [] c \in DateColumns -> to_datetime(df[c])
          [] OTHER -> df[c]]

\* sorteos_df["fecha_sorteo"].isna().all() raises ValueError
YearRaises(df) == IsNA(df["fecha_sorteo"])

\* int(sorteos_df["fecha_sorteo"].dt.year.iloc[0])
PartitionYear(df) == df["fecha_sorteo"].y

\* ------------------------------------------------------------------ keys and paths
\* f"{numero_sorteo}": the decimal text of a non-negative integer
RECURSIVE Fmt(_)
Fmt(n) == IF n < 10 THEN <<Digits[n + 1]>> ELSE Fmt(n \div 10) \o <<Digits[(n % 10) + 1]>>

\* os.path.basename(raw_file)
Basename(s) ==
    LET sl == Positions(s, "/")
    IN  IF sl = {} THEN s
        ELSE SubSeq(s, (CHOOSE i \in sl : \A j \in sl : j <= i) + 1, Len(s))

\* f"{silver_prefix}{dataset}/year={year}/sorteo={numero_sorteo}/{dataset}.parquet"
SilverKey(dataset, y, n) == [dataset |-> dataset, year |-> y, sorteo |-> n]
\* f"{simple_prefix}{dataset}_{numero_sorteo}.parquet"
SimpleKey(dataset, n) == [dataset |-> dataset, sorteo |-> n]
\* f"/tmp/{dataset}_{numero_sorteo}.parquet"
LocalParquet(dataset, n) == [kind |-> "parquet", dataset |-> dataset, sorteo |-> n]
\* f"/tmp/{os.path.basename(raw_file)}"
LocalRaw(key) == [kind |-> "raw", name |-> Basename(key)]

\* list_processed_sorteos_in_partitioned_bucket(bucket, prefix=f"{silver_prefix}sorteos/"):
\* the draw numbers that have an object under the canonical sorteos prefix
list_processed_sorteos(store) == {k.sorteo : k \in {x \in store : x.dataset = "sorteos"}}

\* ------------------------------------------------------------------ input pools
T_NA == <<"N", "/", "A">>
T_na == <<"n", "/", "a">>
T_2024 == <<"0", "1", "/", "0", "6", "/", "2", "0", "2", "4">>
T_2023 == <<"1", "5", "/", "0", "1", "/", "2", "0", "2", "3">>
T_Feb31 == <<"3", "1", "/", "0", "2", "/", "2", "0", "2", "4">>
T_Feb29 == <<"2", "9", "/", "0", "2", "/", "2", "0", "2", "3">>
T_junk == <<"x">>
T_frac == <<"1", ".", "5">>
T_MIXCO == <<"M", "I", "X", "C", "O">>
T_PETEN == <<"P", "E", "T", "E", "N">>

\* texts that are no calendar date in DD/MM/YYYY
BadDateTexts == {T_Feb31, T_Feb29, T_NA, T_junk, <<>>}

RawPrefix == <<"r", "a", "w", "/", "y", "e", "a", "r", "=", "2", "0", "2", "4", "/">>
RawKey(digits, name) == RawPrefix \o SorteoEq \o digits \o <<"/">> \o name
BadKey == RawPrefix \o <<"s", "o", "r", "t", "e", "o", "_", "7", ".", "t", "x", "t">>
RealKeys == {RawKey(<<"7">>, <<"a">>), RawKey(<<"0", "0", "0", "7">>, <<"b">>),
             RawKey(<<"1", "2">>, <<"a">>)}

BaseVendido == [vendedor |-> Str(<<"V">>), ciudad |-> Str(T_MIXCO), departamento |-> Str(T_PETEN)]
PremioRow(numero, monto, vendido) ==
    [numero_premiado |-> numero, letras |-> Str(<<"P">>), monto |-> monto, vendido_por |-> vendido]
BaseRow == PremioRow(Str(<<"4", "2">>), Str(<<"1", "0", "0", ".", "5", "0">>), BaseVendido)

HeaderOf(numero, fecha, reintegros) ==
    [numero_sorteo |-> numero, fecha_sorteo |-> fecha, fecha_caducidad |-> Str(T_2024),
     primer_premio |-> Str(<<"1", "1">>), segundo_premio |-> Str(<<"2", "2">>),
     tercer_premio |-> NA, reintegros |-> reintegros]
BaseReintegros == Str(<<"3", ",", "9">>)

Without(f, c) == [x \in DOMAIN f \ {c} |-> f[x]]

RawFile(key, hdr, premios) == [key |-> key, hdr |-> hdr, premios |-> premios]

\* the files the orchestration is explored over: per real key a well-formed
\* file, one whose draw date is no date, and one whose header draw number is a
\* sentinel (dated in another year); the key that matches no draw number
FilesOfKey(k) ==
    {RawFile(k, HeaderOf(Str(Fmt(SorteoOfKey(k))), Str(T_2024), BaseReintegros), <<BaseRow>>),
     RawFile(k, HeaderOf(Str(Fmt(SorteoOfKey(k))), Str(T_Feb31), BaseReintegros), <<BaseRow>>),
     RawFile(k, HeaderOf(Str(T_NA), Str(T_2023), BaseReintegros), <<BaseRow>>)}
FilePool == UNION {FilesOfKey(k) : k \in RealKeys}
            \cup {RawFile(BadKey, HeaderOf(Str(<<"7">>), Str(T_2024), BaseReintegros), <<BaseRow>>)}

\* listings: sequences of at most MaxFiles files with distinct keys
RECURSIVE Listings(_)
Listings(n) ==
    IF n = 0 THEN {<<>>}
    ELSE LET shorter == Listings(n - 1)
         IN  shorter \cup
             {Append(l, f) : l \in {x \in shorter : Len(x) = n - 1},
                             f \in FilePool}
DistinctKeys(l) == \A i, j \in 1..Len(l) : i # j => l[i].key # l[j].key
RawListings == {l \in Listings(MaxFiles) : DistinctKeys(l)}

\* ------------------------------------------------------------------ state
VARIABLES
    raw,                \* the raw bucket as list_files_in_s3 lists it: files with key and parsed content
    silver,             \* objects of the partitioned bucket under silver_prefix
    simple,             \* objects of the simple bucket under simple_prefix
    tmp,                \* local files under /tmp
    runs,               \* runs of transform() started so far
    pc,                 \* position inside transform(); "idle" outside a run
    idx,                \* position of the for loop in raw_files (1-based)
    processed_sorteos,  \* the listing taken at the start of the run
    numero_sorteo,      \* draw number read from the raw key
    sorteos_df,         \* the sorteos frame (one row), <<>> when unset
    premios_df,         \* the premios frame (rows), <<>> when unset
    year,               \* the derived partition year, 0 when unset
    error,              \* the exception that ended the last run, "" when none
    failIdx,            \* history: loop position at which the run raised, 0 when none
    failPc,             \* history: position inside transform() at which it raised, "" when none
    attempted,          \* history: loop positions downloaded in this run
    done,               \* history: the steps each file completed in this run
    clean,              \* history: per finished run, whether it ended without raising
    silverEnds          \* history: per finished run, the canonical keys when it ended

vars == <<raw, silver, simple, tmp, runs, pc, idx, processed_sorteos, numero_sorteo,
          sorteos_df, premios_df, year, error, failIdx, failPc, attempted, done,
          clean, silverEnds>>

stores == <<silver, simple, tmp, done>>
frames == <<sorteos_df, premios_df, year>>
hist == <<clean, silverEnds>>

Init ==
    /\ raw \in RawListings
    /\ silver = {}
    /\ simple = {}
    /\ tmp = {}
    /\ runs = 0
    /\ pc = "idle"
    /\ idx = 0
    /\ processed_sorteos = {}
    /\ numero_sorteo = NoMatch
    /\ sorteos_df = <<>>
    /\ premios_df = <<>>
    /\ year = 0
    /\ error = ""
    /\ failIdx = 0
    /\ failPc = ""
    /\ attempted = {}
    /\ done = {}
    /\ clean = <<>>
    /\ silverEnds = <<>>

\* the run is over: transform() returned (ok) or an exception left it
RunEnds(ok) ==
    /\ clean' = Append(clean, ok)
    /\ silverEnds' = Append(silverEnds, silver')

\* an exception leaves transform(): nothing catches it, the run is over
Raise(msg) ==
    /\ pc' = "idle"
    /\ error' = msg
    /\ failIdx' = idx
    /\ failPc' = pc
    /\ RunEnds(FALSE)
    /\ sorteos_df' = <<>>
    /\ premios_df' = <<>>
    /\ year' = 0
    /\ UNCHANGED <<raw, runs, idx, processed_sorteos, numero_sorteo, attempted>>

Goto(next) ==
    /\ pc' = next
    /\ UNCHANGED <<error, failIdx, failPc, hist, raw, runs, idx,
                   processed_sorteos, numero_sorteo, attempted>>

Step(name) == [idx |-> idx, step |-> name]

\* lines 87-96: the two listings, once per run; either may raise
StartRun ==
    /\ pc = "idle"
    /\ runs < MaxRuns
    /\ runs' = runs + 1
    /\ attempted' = {}
    /\ done' = {}
    /\ UNCHANGED <<raw, silver, simple, tmp, frames, numero_sorteo>>
    /\ \/ /\ processed_sorteos' = list_processed_sorteos(silver)
          /\ pc' = "loop"
          /\ idx' = 1
          /\ error' = ""
          /\ failIdx' = 0
          /\ failPc' = ""
          /\ UNCHANGED hist
       \/ /\ pc' = "idle"
          /\ idx' = 0
          /\ error' = "StorageError"
          /\ failIdx' = 0
          /\ failPc' = "idle"
          /\ RunEnds(FALSE)
          /\ UNCHANGED processed_sorteos

\* the matched text tested without int(): a str is never in a set of int
AlreadyProcessedUncast(n, processed) == FALSE

\* line 106: numero_sorteo in processed_sorteos
AlreadyProcessed(n, processed) == n \in processed

\* lines 100-103: the key carries no sorteo=<digits>/ segment
SkipUnexpected ==
    /\ pc = "loop"
    /\ idx <= Len(raw)
    /\ SorteoOfKey(raw[idx].key) = NoMatch
    /\ idx' = idx + 1
    /\ UNCHANGED <<raw, stores, frames, runs, pc, processed_sorteos, numero_sorteo, error,
                   failIdx, failPc, attempted, hist>>

\* lines 105-108: the draw number is in the listing taken at the start
SkipProcessed ==
    /\ pc = "loop"
    /\ idx <= Len(raw)
    /\ SorteoOfKey(raw[idx].key) # NoMatch
    /\ AlreadyProcessed(SorteoOfKey(raw[idx].key), processed_sorteos)
    /\ idx' = idx + 1
    /\ numero_sorteo' = SorteoOfKey(raw[idx].key)
    /\ UNCHANGED <<raw, stores, frames, runs, pc, processed_sorteos, error,
                   failIdx, failPc, attempted, hist>>

\* lines 105-111: download_file_from_s3, which may raise
Download ==
    /\ pc = "loop"
    /\ idx <= Len(raw)
    /\ SorteoOfKey(raw[idx].key) # NoMatch
    /\ ~AlreadyProcessed(SorteoOfKey(raw[idx].key), processed_sorteos)
    /\ UNCHANGED <<silver, simple, frames, raw, runs, idx, processed_sorteos>>
    /\ numero_sorteo' = SorteoOfKey(raw[idx].key)
    /\ attempted' = attempted \cup {idx}
    /\ \/ /\ tmp' = tmp \cup {LocalRaw(raw[idx].key)}
          /\ done' = done \cup {Step("download")}
          /\ pc' = "downloaded"
          /\ UNCHANGED <<error, failIdx, failPc, hist>>
       \/ /\ UNCHANGED <<tmp, done>>
          /\ pc' = "idle"
          /\ error' = "StorageError"
          /\ failIdx' = idx
          /\ failPc' = "loop"
          /\ RunEnds(FALSE)

\* lines 113-120: read, split_header_body, process_header, process_body; the
\* parsers may reject the file
Parse ==
    /\ pc = "downloaded"
    /\ UNCHANGED stores
    /\ \/ /\ sorteos_df' = raw[idx].hdr
          /\ premios_df' = raw[idx].premios
          /\ year' = year
          /\ Goto("parsed")
       \/ Raise("StructuralParseError")

\* lines 122-130
Attach ==
    /\ pc = "parsed"
    /\ UNCHANGED stores
    /\ IF AttachRaises(sorteos_df, premios_df)
       THEN Raise("KeyError")
       ELSE /\ premios_df' = AttachNumeroSorteo(sorteos_df, premios_df)
            /\ UNCHANGED <<sorteos_df, year>>
            /\ Goto("attached")

\* line 133
SplitVendido ==
    /\ pc = "attached"
    /\ UNCHANGED stores
    /\ premios_df' = split_vendido_por_column(premios_df)
    /\ UNCHANGED <<sorteos_df, year>>
    /\ Goto("split")

\* lines 135-138
Capital ==
    /\ pc = "split"
    /\ UNCHANGED stores
    /\ IF CapitalRaises(premios_df)
       THEN Raise("KeyError")
       ELSE /\ premios_df' = CapitalOverride(premios_df)
            /\ UNCHANGED <<sorteos_df, year>>
            /\ Goto("capital")

\* lines 141-148
SelectAndReplace ==
    /\ pc = "capital"
    /\ UNCHANGED stores
    /\ IF SelectRaises(premios_df)
       THEN Raise("KeyError")
       ELSE /\ premios_df' = ReplaceSentinels(SelectSilverColumns(premios_df))
            /\ UNCHANGED <<sorteos_df, year>>
            /\ Goto("replaced")

\* lines 150-157
EnforcePremios ==
    /\ pc = "replaced"
    /\ UNCHANGED stores
    /\ IF PremiosSchemaRaises(premios_df)
       THEN Raise("TypeError")
       ELSE /\ premios_df' = EnforcePremiosSchema(premios_df)
            /\ UNCHANGED <<sorteos_df, year>>
            /\ Goto("premios_ok")

\* lines 163-186; the cast of a fractional refund depends on the pandas in use
Reintegros ==
    /\ pc = "premios_ok"
    /\ UNCHANGED stores
    /\ \E cast \in {"truncate", "raise"} :
          IF ReintegrosRaises(sorteos_df, cast)
          THEN Raise("TypeError")
          ELSE /\ sorteos_df' = SplitReintegros(sorteos_df, cast)
               /\ UNCHANGED <<premios_df, year>>
               /\ Goto("reintegros_ok")

\* lines 188-204
EnforceSorteos ==
    /\ pc = "reintegros_ok"
    /\ UNCHANGED stores
    /\ IF SorteosSchemaRaises(sorteos_df)
       THEN Raise(IF CoreIntColumns \cup DateColumns \subseteq DOMAIN sorteos_df
                  THEN "TypeError" ELSE "KeyError")
       ELSE /\ sorteos_df' = EnforceSorteosSchema(sorteos_df)
            /\ UNCHANGED <<premios_df, year>>
            /\ Goto("sorteos_ok")

\* lines 206-210
DeriveYear ==
    /\ pc = "sorteos_ok"
    /\ UNCHANGED <<silver, simple, tmp>>
    /\ IF YearRaises(sorteos_df)
       THEN /\ done' = done
            /\ Raise("ValueError")
       ELSE /\ year' = PartitionYear(sorteos_df)
            /\ done' = done \cup {Step("normalized")}
            /\ UNCHANGED <<sorteos_df, premios_df>>
            /\ Goto("normalized")

\* lines 215-219: the two to_parquet calls; the first or the second may raise
WriteLocal ==
    /\ pc = "normalized"
    /\ UNCHANGED <<silver, simple>>
    /\ \/ /\ tmp' = tmp \cup {LocalParquet("sorteos", numero_sorteo),
                              LocalParquet("premios", numero_sorteo)}
          /\ done' = done \cup {Step("local_sorteos"), Step("local_premios")}
          /\ UNCHANGED frames
          /\ Goto("written")
       \/ /\ tmp' = tmp \cup {LocalParquet("sorteos", numero_sorteo)}
          /\ done' = done \cup {Step("local_sorteos")}
          /\ Raise("OSError")
       \/ /\ UNCHANGED <<tmp, done>>
          /\ Raise("OSError")

\* upload_file_to_s3(local, bucket, key): the object is stored, or the call raises
UploadSimple(from, to, dataset, name) ==
    /\ pc = from
    /\ UNCHANGED <<silver, tmp>>
    /\ \/ /\ simple' = simple \cup {SimpleKey(dataset, numero_sorteo)}
          /\ done' = done \cup {Step(name)}
          /\ UNCHANGED frames
          /\ Goto(to)
       \/ /\ UNCHANGED <<simple, done>>
          /\ Raise("StorageError")

UploadSilver(from, to, dataset, name) ==
    /\ pc = from
    /\ UNCHANGED <<simple, tmp>>
    /\ \/ /\ silver' = silver \cup {SilverKey(dataset, year, numero_sorteo)}
          /\ done' = done \cup {Step(name)}
          /\ UNCHANGED frames
          /\ Goto(to)
       \/ /\ UNCHANGED <<silver, done>>
          /\ Raise("StorageError")

\* line 227
UploadSimpleSorteos == UploadSimple("written", "simple_sorteos", "sorteos", "simple_sorteos")
\* line 228
UploadSimplePremios == UploadSimple("simple_sorteos", "simple_premios", "premios", "simple_premios")
\* line 240
UploadSilverSorteos == UploadSilver("simple_premios", "silver_sorteos", "sorteos", "silver_sorteos")
\* line 241
UploadSilverPremios == UploadSilver("silver_sorteos", "uploaded", "premios", "silver_premios")

\* line 243, and the loop moves on to the next raw file
FileDone ==
    /\ pc = "uploaded"
    /\ pc' = "loop"
    /\ idx' = idx + 1
    /\ sorteos_df' = <<>>
    /\ premios_df' = <<>>
    /\ year' = 0
    /\ UNCHANGED <<raw, stores, runs, processed_sorteos, numero_sorteo, error, failIdx,
                   failPc, attempted, hist>>

\* the loop is exhausted: transform() returns
FinishRun ==
    /\ pc = "loop"
    /\ idx > Len(raw)
    /\ pc' = "idle"
    /\ UNCHANGED <<raw, stores, frames, runs, idx, processed_sorteos, numero_sorteo, error,
                   failIdx, failPc, attempted>>
    /\ RunEnds(TRUE)

Normalize ==
    \/ Attach
    \/ SplitVendido
    \/ Capital
    \/ SelectAndReplace
    \/ EnforcePremios
    \/ Reintegros
    \/ EnforceSorteos
    \/ DeriveYear

Next ==
    \/ StartRun
    \/ SkipUnexpected
    \/ SkipProcessed
    \/ Download
    \/ Parse
    \/ Normalize
    \/ WriteLocal
    \/ UploadSimpleSorteos
    \/ UploadSimplePremios
    \/ UploadSilverSorteos
    \/ UploadSilverPremios
    \/ FileDone
    \/ FinishRun

Spec == Init /\ [][Next]_vars

\* ------------------------------------------------------------------ the normalisation followed on one file
\* The inputs of the normalisation stages: what process_header, process_body
\* and split_vendido_por_column can hand over for one downloaded file.
NumeroCells == {Str(<<"1", "2">>), Str(<<" ", "7">>), Str(T_NA), Str(T_na), Str(<<>>),
                Str(T_junk), Str(T_frac), NA}
FechaCells == {Str(T_2024), Str(T_2023), Str(T_Feb29), Str(T_Feb31), Str(T_junk), NA,
               Str(<<"1", "/", "6", "/", "2", "0", "2", "4">>)}
ReintegrosCells == {NA, Str(<<>>), Str(<<"3">>), Str(<<"3", ",", "9">>),
                    Str(<<"3", ",", "9", ",", "5">>), Str(<<"3", ",", "x">>),
                    Str(<<"0", "7", ",">>), Str(<<"1", ",", "2", ",", "3", ",", "4">>),
                    Str(<<"3", ",", "1", ".", "5">>), Str(<<"1", ".", "5">>)}
MontoCells == {Str(<<"1", "0", "0", ".", "5", "0">>), Str(<<"7">>), Str(T_NA), Str(T_na),
               Str(<<>>), Str(T_junk), NA}
CityCells == {Str(DE_ESTA_CAPITAL),
              Str(<<"d", "e", " ", "e", "s", "t", "a", " ", "c", "a", "p", "i", "t", "a", "l">>),
              Str(<<"D", "e", " ", "E", "s", "t", "a", " ", "C", "a", "p", "i", "t", "a", "l">>),
              Str(T_MIXCO), Str(T_NA), Str(<<>>), NA}
DeptCells == {Str(GUATEMALA), Str(T_PETEN), Str(T_NA), Str(<<>>), NA}
PremiadoCells == {Str(T_frac), Str(T_junk), NA}

BaseHeader == HeaderOf(Str(<<"1", "2">>), Str(T_2024), BaseReintegros)
BaseMonto == Str(<<"1", "0", "0", ".", "5", "0">>)
BasePremiado == Str(<<"4", "2">>)

HeaderPool ==
    {HeaderOf(n, Str(T_2024), BaseReintegros) : n \in NumeroCells}
    \cup {HeaderOf(Str(<<"1", "2">>), f, BaseReintegros) : f \in FechaCells}
    \cup {HeaderOf(Str(<<"1", "2">>), Str(T_2024), r) : r \in ReintegrosCells}
    \cup {Without(BaseHeader, c) :
             c \in {"reintegros", "numero_sorteo", "fecha_sorteo", "primer_premio"}}
    \cup {[BaseHeader EXCEPT !.primer_premio = Str(T_frac)]}

RowPool ==
    {PremioRow(BasePremiado, m, BaseVendido) : m \in MontoCells}
    \cup {PremioRow(BasePremiado, BaseMonto,
                    [vendedor |-> Str(<<"V">>), ciudad |-> c, departamento |-> d]) :
             c \in CityCells, d \in DeptCells}
    \cup {PremioRow(n, BaseMonto, BaseVendido) : n \in PremiadoCells}

RECURSIVE RowSeqs(_)
RowSeqs(n) == IF n = 0 THEN {<<>>}
              ELSE RowSeqs(n - 1) \cup
                   {Append(l, r) : l \in {x \in RowSeqs(n - 1) : Len(x) = n - 1}, r \in RowPool}

NormKey == RawKey(<<"1", "2">>, <<"a">>)
NormFiles ==
    {RawFile(NormKey, h, <<BaseRow>>) : h \in HeaderPool}
    \cup {RawFile(NormKey, HeaderOf(n, Str(T_2024), BaseReintegros), rows) :
             n \in {Str(<<"1", "2">>), Str(T_NA)}, rows \in RowSeqs(MaxRows)}

\* the state right after the download and the parse of the only file of a run
InitNorm ==
    /\ \E f \in NormFiles :
          /\ raw = <<f>>
          /\ sorteos_df = f.hdr
          /\ premios_df = f.premios
          /\ numero_sorteo = SorteoOfKey(f.key)
          /\ tmp = {LocalRaw(f.key)}
    /\ silver = {}
    /\ simple = {}
    /\ runs = 1
    /\ pc = "parsed"
    /\ idx = 1
    /\ processed_sorteos = {}
    /\ year = 0
    /\ error = ""
    /\ failIdx = 0
    /\ failPc = ""
    /\ attempted = {1}
    /\ done = {[idx |-> 1, step |-> "download"]}
    /\ clean = <<>>
    /\ silverEnds = <<>>

SpecNorm == InitNorm /\ [][Normalize]_vars

\* ================================================================== properties
\* positions inside the processing of one file
PreSilver == {"downloaded", "parsed", "attached", "split", "capital", "replaced",
              "premios_ok", "reintegros_ok", "sorteos_ok", "normalized", "written",
              "simple_sorteos", "simple_premios"}
PostCapital == {"capital", "replaced", "premios_ok", "reintegros_ok", "sorteos_ok",
                "normalized"}
PostPremios == {"premios_ok", "reintegros_ok", "sorteos_ok", "normalized"}
PostReintegros == {"reintegros_ok", "sorteos_ok", "normalized"}
PostSorteos == {"sorteos_ok", "normalized"}
OutputSteps == {"local_sorteos", "local_premios", "simple_sorteos", "simple_premios",
                "silver_sorteos", "silver_premios"}

CanonicalSorteos(store) == {k.sorteo : k \in {x \in store : x.dataset = "sorteos"}}
CanonicalPremios(store) == {k.sorteo : k \in {x \in store : x.dataset = "premios"}}
KeyNumber(j) == SorteoOfKey(raw[j].key)

\* C1: when processing a file raises, only that file is given up: every later
\* file of the batch that is not already processed is still downloaded.
Pending(j) == KeyNumber(j) # NoMatch /\ KeyNumber(j) \notin processed_sorteos
C1_FailureIsolated ==
    (pc = "idle" /\ failIdx > 0) =>
        \A j \in (failIdx + 1)..Len(raw) : Pending(j) => j \in attempted

\* C2: a run that follows a run which went through every raw file without
\* raising downloads, writes and uploads nothing, and leaves the set of
\* canonical keys as that run left it; no run touches a file whose draw number
\* was under the canonical sorteos prefix when the run before it ended.
C2_SecondRunSkips ==
    /\ runs > 1 =>
          \A e \in done :
              /\ ~clean[runs - 1]
              /\ KeyNumber(e.idx) \notin CanonicalSorteos(silverEnds[runs - 1])
    /\ \A r \in 2..Len(silverEnds) : clean[r - 1] => silverEnds[r] = silverEnds[r - 1]
    /\ (pc # "idle" /\ runs > 1 /\ clean[runs - 1]) =>
          (pc = "loop" /\ silver = silverEnds[runs - 1])
C2_Witness ==
    /\ pc = "idle"
    /\ clean = <<TRUE, TRUE>>
    /\ silverEnds[1] # {}
    /\ \E j \in 1..Len(raw) : KeyNumber(j) \in CanonicalSorteos(silverEnds[1])

\* C3: once the canonical sorteos object of draw n is stored, no file of draw n
\* is downloaded or processed again.
C3_NeverReprocessed ==
    pc \in PreSilver => numero_sorteo \notin CanonicalSorteos(silver)

\* C4: every local parquet file and every uploaded object of a file comes after
\* the partition year of that file was derived, and a file whose draw date is
\* no calendar date writes and uploads nothing: a draw number whose raw files
\* all carry such a date has no parquet file in /tmp and no object in either
\* bucket.
BadDate(j) ==
    raw[j].hdr["fecha_sorteo"].kind # "str" \/ raw[j].hdr["fecha_sorteo"].s \in BadDateTexts
OnlyBadDates(n) == \A j \in 1..Len(raw) : KeyNumber(j) = n => BadDate(j)
C4_UploadAfterNormalization ==
    /\ \A e \in done : e.step \in OutputSteps =>
          /\ [idx |-> e.idx, step |-> "normalized"] \in done
          /\ ~BadDate(e.idx)
    /\ \A k \in silver \cup simple : ~OnlyBadDates(k.sorteo)
    /\ \A f \in tmp : f.kind = "parquet" => ~OnlyBadDates(f.sorteo)
C4_Witness ==
    /\ pc = "idle"
    /\ error = "ValueError"
    /\ failIdx = 2
    /\ BadDate(failIdx)
    /\ silver # {}
    /\ \A e \in done : e.idx = failIdx => e.step = "download"

\* C5: the canonical sorteos object of a draw is present exactly when its
\* canonical premios object is.
C5_NoHalfWrittenDraw == CanonicalSorteos(silver) = CanonicalPremios(silver)

\* C10: for a processed file the draw number of the keys (and of the
\* processed-set test) is the draw number stored in both frames, and the year
\* of the keys is the year of the stored draw date.
C10_KeyEqualsData ==
    pc = "uploaded" =>
        /\ sorteos_df["numero_sorteo"] = Num(IntNum(numero_sorteo))
        /\ \A i \in 1..Len(premios_df) :
              premios_df[i]["numero_sorteo"] = Num(IntNum(numero_sorteo))
        /\ year = sorteos_df["fecha_sorteo"].y

\* ---- the normalised frames against what the parsers handed over
RawRow(i) == raw[idx].premios[i]
RawHeader == raw[idx].hdr

LowerChar(c) == IF \E i \in 1..26 : UpperLetters[i] = c
                THEN LowerLetters[CHOOSE i \in 1..26 : UpperLetters[i] = c]
                ELSE c
EqualsIgnoringCase(a, b) ==
    Len(a) = Len(b) /\ \A i \in 1..Len(a) : LowerChar(a[i]) = LowerChar(b[i])

\* C6: from the capital-alias override on, through sentinel nulling and type
\* coercion, every premio whose city is "DE ESTA CAPITAL" in any letter case
\* has department "GUATEMALA", whatever the vendor split produced.
C6_CapitalAlias ==
    pc \in PostCapital =>
        \A i \in 1..Len(premios_df) :
            (/\ premios_df[i]["ciudad"].kind = "str"
             /\ EqualsIgnoringCase(premios_df[i]["ciudad"].s, DE_ESTA_CAPITAL))
            => premios_df[i]["departamento"] = Str(GUATEMALA)
C6_Witness ==
    /\ pc = "normalized"
    /\ Len(premios_df) >= 1
    /\ RawRow(1)["vendido_por"].departamento = Str(T_NA)
    /\ RawRow(1)["vendido_por"].ciudad.kind = "str"
    /\ RawRow(1)["vendido_por"].ciudad.s # DE_ESTA_CAPITAL
    /\ premios_df[1]["ciudad"].kind = "str"
    /\ EqualsIgnoringCase(premios_df[1]["ciudad"].s, DE_ESTA_CAPITAL)
    /\ premios_df[1]["departamento"] = Str(GUATEMALA)

\* the comma-separated values of the raw reintegros text; none for a missing,
\* null or empty field
RawRefundValues ==
    IF "reintegros" \notin DOMAIN RawHeader THEN <<>>
    ELSE IF RawHeader["reintegros"].kind # "str" THEN <<>>
    ELSE IF RawHeader["reintegros"].s = <<>> THEN <<>>
    ELSE SplitOn(RawHeader["reintegros"].s, ",")
IsIntegerText(t) == t # <<>> /\ AllDigits(t)

\* C7: the normalised sorteos row has the three refund columns and no
\* reintegros column; with k < 3 raw values, column i <= k holds value i as an
\* integer (when it is one), the columns after k are null, and the refund step
\* raises nothing when the k values are integers.
C7_RefundColumns ==
    LET k == Len(RawRefundValues)
    IN  /\ pc \in PostReintegros =>
              /\ {ReintegroColumns[i] : i \in 1..3} \subseteq DOMAIN sorteos_df
              /\ "reintegros" \notin DOMAIN sorteos_df
              /\ k < 3 => \A i \in 1..3 :
                    /\ (i <= k /\ IsIntegerText(RawRefundValues[i])) =>
                          sorteos_df[ReintegroColumns[i]] =
                              Num(IntNum(DecVal(RawRefundValues[i])))
                    /\ i > k => sorteos_df[ReintegroColumns[i]] = NA
        /\ (pc = "idle" /\ failPc = "premios_ok") =>
              ~(k < 3 /\ \A i \in 1..k : IsIntegerText(RawRefundValues[i]))
C7_Witness ==
    /\ pc = "normalized"
    /\ "reintegros" \in DOMAIN RawHeader
    /\ RawHeader["reintegros"] = Str(<<"3">>)
    /\ sorteos_df["reintegro_primer_premio"] = Num(IntNum(3))
    /\ sorteos_df["reintegro_segundo_premio"] = NA
    /\ sorteos_df["reintegro_tercer_premio"] = NA

\* C8: once both frames are normalised, the numero_sorteo of every premio
\* equals the numero_sorteo of the file's sorteos row.
C8_DrawNumberForeignKey ==
    pc \in PostSorteos =>
        \A i \in 1..Len(premios_df) :
            premios_df[i]["numero_sorteo"] = sorteos_df["numero_sorteo"]
C8_Witness ==
    /\ pc = "normalized"
    /\ RawHeader["numero_sorteo"] = Str(T_NA)
    /\ Len(premios_df) >= 1
    /\ premios_df[1]["numero_sorteo"] = Num(Int0)
    /\ sorteos_df["numero_sorteo"] = Num(Int0)

\* a cell that holds no number: null, a sentinel, or text that is no numeral
Defaulted(c) == c.kind = "na" \/ (c.kind = "str" /\ c.s \in SentinelTexts \cup {T_junk})
Fractional(c) == c.kind = "str" /\ Positions(c.s, ".") # {}

====
